---- MODULE Spec2Model ----
(***************************************************************************)
(* Model of storage-proofs/src/drgraph.rs: the BucketGraph parent sampler, *)
(* the Graph::merkle_tree builder and the parameter-set identifier.        *)
(*                                                                         *)
(* Three specifications share the module:                                  *)
(*   SpecParents  calls of BucketGraph::parents on a graph and its copy    *)
(*   SpecTree     calls of Graph::merkle_tree, with both leaf modes        *)
(*   SpecIdent    calls of parameter_set_identifier on two graphs          *)
(***************************************************************************)
EXTENDS Integers, Sequences, FiniteSets, TLC

VARIABLES
    g,        \* a BucketGraph: [nodes, base_degree, seed]
    h,        \* a second BucketGraph (a copy of g, or built independently)
    cipher,   \* the ChaCha keystream family: one period of output words
    rng,      \* the generator state local to the latest parents call
    ret,      \* the latest parents call: its arguments and what it returned
    memo,     \* some earlier parents call, kept for comparison with ret
    hashfn,   \* H::Function::hash_single_node of the hasher H, as a function
    buf,      \* the data buffer handed to merkle_tree
    nodeSize, \* the node_size handed to merkle_tree
    tree,     \* the latest merkle_tree call: its arguments and what it returned
    alt,      \* what that call returns when built with the other leaf mode
    ident     \* the latest identifier strings of g and h

vars == <<g, h, cipher, rng, ret, memo, hashfn, buf, nodeSize, tree, alt, ident>>

----------------------------------------------------------------------------
(* Bounds of the model.                                                    *)

MaxNodes == 4
MaxDegree == 3
RngWords == 5
CipherLen == 2

Seeds == {<<1, 2, 3, 4, 5, 6, 7>>, <<0, 0, 0, 0, 0, 0, 0>>}

Min(a, b) == IF a <= b THEN a ELSE b
Max(a, b) == IF a >= b THEN a ELSE b

----------------------------------------------------------------------------
(* BucketGraph                                                             *)

\* BucketGraph::new, for the expansion_degree 0 its assert_eq! lets
\* through: the other arguments are stored as they are.
NewGraph(nodes, base_degree, expansion_degree, seed) ==
    [nodes |-> nodes, base_degree |-> base_degree, seed |-> seed]

\* ((x) as f32).log2().floor() as usize.  Exact for x < 2^24; log2(0) is
\* -inf, which the cast saturates to 0.
RECURSIVE FloorLog2(_)
FloorLog2(x) == IF x <= 1 THEN 0 ELSE 1 + FloorLog2(x \div 2)

\* seed = self.seed | node : the 7 words of the graph, then node as u32
\* (every node index of the model is below 2^32, so the cast keeps it).
ParentsSeed(gr, node) == gr.seed \o <<node>>

\* A generator that outlives the call: the next call goes on from the
\* position the last one reached.
MutFromSeedShared(seed8) ==
    IF rng.key = <<>> THEN [key |-> seed8, pos |-> 0] ELSE [key |-> seed8, pos |-> rng.pos]

\* ChaChaRng::from_seed(&seed): a fresh generator at the start of the
\* keystream of that seed.
FromSeed(seed8) == [key |-> seed8, pos |-> 0]

RECURSIVE SumSeq(_)
SumSeq(s) == IF s = <<>> THEN 0 ELSE Head(s) + SumSeq(Tail(s))

\* The next output word of a generator.  The keystream is a fixed function
\* of (key, position); which function is left open by cipher, whose words
\* give one slot's two draws every value, shifted from slot to slot and
\* from key to key.
NextWord(r) ==
    (cipher[r.pos % CipherLen] + (r.pos \div CipherLen) + SumSeq(r.key)) % RngWords

Advance(r) == [r EXCEPT !.pos = @ + 1]

\* let logi = ((node * m) as f32).log2().floor() as usize;
Logi(node, m) == FloorLog2(node * m)

\* rng.gen::<usize>() % logi, on the word the generator gives next.
BucketOf(word, logi) == word % logi

\* let jj = cmp::min(node * m + k, 1 << (j + 1));
Jj(node, m, k, j) == Min(node * m + k, 2 ^ (j + 1))

\* The two arguments of rng.gen_range(cmp::max(jj >> 1, 2), jj + 1).
RangeLow(jj) == Max(jj \div 2, 2)

\* The range taken as [low, jj) instead of [low, jj].
MutRangeHighExclusive(jj) == jj

RangeHigh(jj) == jj + 1

\* gen_range(low, high) for low < high: a value of [low, high) fixed by the
\* word the generator gives next (the words rand rejects to stay uniform
\* are not modelled: they move the position, not the range).
GenRange(word, low, high) == low + (word % (high - low))

\* let out = (node * m + k - back_dist) / m;
Out(node, m, k, back_dist) == (node * m + k - back_dist) \div m

\* The self reference left in place.
MutPushSelf(node, out) == out

\* remove self references and replace with reference to previous node
PushOf(node, out) == IF out = node THEN node - 1 ELSE out

\* One iteration of the loop over the m meta nodes (slot k).  The result
\* names the pushed parent, the candidate out before the self-reference
\* substitution, the values drawn on the way, the generator after the two
\* draws, and the panic that ended the iteration ("" when none did).
Slot(node, m, k, r) ==
    LET logi == Logi(node, m)
        r1 == Advance(r)
        r2 == Advance(r1)
        bad(why) == [panic |-> why, push |-> 0, out |-> 0, draw |-> <<>>, rng |-> r]
    IN  IF logi = 0 THEN bad("rem by zero")
        ELSE
        LET j == BucketOf(NextWord(r), logi)
            jj == Jj(node, m, k, j)
            low == RangeLow(jj)
            high == RangeHigh(jj)
        IN  IF low >= high THEN bad("gen_range low >= high")
            ELSE
            LET back_dist == GenRange(NextWord(r1), low, high)
                draw == [logi |-> logi, j |-> j, jj |-> jj, back_dist |-> back_dist]
            IN  IF back_dist > node * m + k THEN bad("subtract with overflow")
                ELSE
                LET out == Out(node, m, k, back_dist)
                IN  IF out # node /\ ~(out <= node)
                    THEN bad("assert out <= node")
                    ELSE [panic |-> "", push |-> PushOf(node, out), out |-> out,
                          draw |-> draw, rng |-> r2]

\* for k in 0..m : the slots in order, threading the generator.
RECURSIVE SlotLoop(_, _, _, _, _)
SlotLoop(node, m, k, r, acc) ==
    IF k >= m
    THEN [panic |-> "", parents |-> acc.parents, outs |-> acc.outs,
          draws |-> acc.draws, rng |-> r]
    ELSE LET s == Slot(node, m, k, r)
         IN  IF s.panic # ""
             THEN [panic |-> s.panic, parents |-> <<>>, outs |-> acc.outs,
                   draws |-> acc.draws, rng |-> s.rng]
             ELSE SlotLoop(node, m, k + 1, s.rng,
                           [parents |-> Append(acc.parents, s.push),
                            outs |-> Append(acc.outs, s.out),
                            draws |-> Append(acc.draws, s.draw)])

\* parents.sort_unstable()
RECURSIVE Insert(_, _)
Insert(x, s) ==
    IF s = <<>> THEN <<x>>
    ELSE IF x <= Head(s) THEN <<x>> \o s
    ELSE <<Head(s)>> \o Insert(x, Tail(s))

\* The parents returned in slot order.
MutNoSort(s) == s

\* The parents sorted and equal entries dropped.
RECURSIVE MutSortDedup(_)
MutSortDedup(s) ==
    IF s = <<>> THEN <<>>
    ELSE LET rest == MutSortDedup(Tail(s))
         IN  IF \E i \in 1..Len(rest) : rest[i] = Head(s)
             THEN rest ELSE Insert(Head(s), rest)

RECURSIVE SortUnstable(_)
SortUnstable(s) == IF s = <<>> THEN <<>> ELSE Insert(Head(s), SortUnstable(Tail(s)))

\* vec![0; m]
Zeros(m) == [i \in 1..m |-> 0]

NoRng == [key |-> <<>>, pos |-> 0]

\* BucketGraph::parents(node).  The generator is a local of the call; rng
\* is what the call leaves behind of it.
ParentsOf(gr, node) ==
    LET m == gr.base_degree
    IN  IF node = 0 \/ node = 1
        THEN [panic |-> "", parents |-> Zeros(m), outs |-> <<>>, draws |-> <<>>,
              rng |-> rng]
        ELSE LET l == SlotLoop(node, m, 0, FromSeed(ParentsSeed(gr, node)),
                               [parents |-> <<>>, outs |-> <<>>, draws |-> <<>>])
             IN  [l EXCEPT !.parents = IF l.panic = "" THEN SortUnstable(@) ELSE <<>>]

NoCall ==
    [called |-> FALSE, nodes |-> 0, base_degree |-> 0, seed |-> <<>>, node |-> 0,
     panic |-> "", parents |-> <<>>, outs |-> <<>>, draws |-> <<>>]

CallRecord(gr, node, res) ==
    [called |-> TRUE, nodes |-> gr.nodes, base_degree |-> gr.base_degree,
     seed |-> gr.seed, node |-> node,
     panic |-> res.panic, parents |-> res.parents, outs |-> res.outs,
     draws |-> res.draws]

\* A caller asks graph gr for the parents of one of its nodes.
Parents(gr, node) ==
    /\ node \in 0..(gr.nodes - 1)
    /\ LET res == ParentsOf(gr, node)
       IN  /\ ret' = CallRecord(gr, node, res)
           /\ rng' = res.rng
           /\ memo' \in IF memo.called THEN {memo} ELSE {memo, ret}
    /\ UNCHANGED <<g, h, cipher, hashfn, buf, nodeSize, tree, alt, ident>>

----------------------------------------------------------------------------
(* Graph::merkle_tree                                                      *)

\* if node_size != 32
HashSize == 32

PARALLELL_MERKLE == FALSE

MaxSliceVal == 2
FieldModulus == 2

\* A data buffer is its length and the content of its leading node-sized
\* slices; a slice's content is the number its bytes encode.
SliceVals == 0..MaxSliceVal

\* H::Domain: the field elements.
Domain == [fr : 0..(FieldModulus - 1)]

NodeSizes == {HashSize - 1, HashSize, HashSize + 1}

NoData == [len |-> 0, slices |-> <<>>]

DataLens == {ns * n + d : ns \in NodeSizes, n \in 1..MaxNodes, d \in {0, 1}}

\* Graph::size
Size(gr) == gr.nodes

\* util::data_at_node(&data, i, node_size): the slice of node i, or an error
\* when the buffer ends before it.
DataAtNode(data, i, node_size) ==
    IF (i + 1) * node_size <= data.len
    THEN [ok |-> TRUE, slice |-> data.slices[i]]
    ELSE [ok |-> FALSE, slice |-> 0]

\* H::Domain::try_from_bytes: the element a slice encodes, or an error when
\* the slice encodes none.
TryFromBytes(slice) ==
    IF slice < FieldModulus
    THEN [ok |-> TRUE, val |-> [fr |-> slice]]
    ELSE [ok |-> FALSE, val |-> [fr |-> 0]]

\* H::Function::hash_single_node(&d)
HashSingleNode(slice) == hashfn[slice]

\* Only a buffer that is too short refused.
MutSizeMismatchShort(len, node_size, size) == len < node_size * size

\* if data.len() != (node_size * self.size()) as usize
SizeMismatch(len, node_size, size) == len # node_size * size

\* Only a node size below the hash size refused.
MutBadNodeSizeBelow(node_size) == node_size < HashSize

\* if node_size != 32
BadNodeSize(node_size) == node_size # HashSize

\* The leaf of node i in the sequential mode: the closure given to
\* MerkleTree::new, with its expect and its unwrap.
SequentialLeaf(data, i, node_size) ==
    LET d == DataAtNode(data, i, node_size)
    IN  IF ~d.ok THEN [panic |-> "data_at_node math failed", val |-> [fr |-> 0]]
        ELSE LET res == TryFromBytes(d.slice)
             IN  IF ~res.ok
                 THEN [panic |-> "called Result::unwrap() on an Err value",
                       val |-> [fr |-> 0]]
                 ELSE [panic |-> "", val |-> res.val]

\* The leaf of node i in the parallel mode: the closure given to
\* MerkleTree::from_par_iter.
ParallelLeaf(data, i, node_size) ==
    LET d == DataAtNode(data, i, node_size)
    IN  IF ~d.ok THEN [panic |-> "data_at_node math failed", val |-> [fr |-> 0]]
        ELSE [panic |-> "", val |-> HashSingleNode(d.slice)]

TreeResult(kind, err, leaves, why) ==
    [kind |-> kind, err |-> err, leaves |-> leaves, panic |-> why]

\* MerkleTree::new / MerkleTree::from_par_iter over (0..self.size()): the
\* leaves placed by node index; every level above is computed from them.
\* The first leaf closure that panics ends the call.
TreeFromLeaves(leaf, size) ==
    LET failed == {i \in 0..(size - 1) : leaf[i].panic # ""}
    IN  IF failed # {}
        THEN LET first == CHOOSE i \in failed : \A o \in failed : i <= o
             IN  TreeResult("panic", <<>>, <<>>, leaf[first].panic)
        ELSE TreeResult("ok", <<>>, [i \in 1..size |-> leaf[i - 1].val], "")

\* Graph::merkle_tree(data, node_size), compiled with PARALLELL_MERKLE set
\* to parallel.
MerkleTreeIn(parallel, gr, data, node_size) ==
    IF SizeMismatch(data.len, node_size, Size(gr))
    THEN TreeResult("InvalidMerkleTreeArgs", <<data.len, node_size, Size(gr)>>, <<>>, "")
    ELSE IF BadNodeSize(node_size)
    THEN TreeResult("InvalidNodeSize", <<node_size>>, <<>>, "")
    ELSE IF parallel
    THEN TreeFromLeaves([i \in 0..(Size(gr) - 1) |-> ParallelLeaf(data, i, node_size)],
                        Size(gr))
    ELSE TreeFromLeaves([i \in 0..(Size(gr) - 1) |-> SequentialLeaf(data, i, node_size)],
                        Size(gr))

NoTree == [called |-> FALSE, kind |-> "", err |-> <<>>, leaves |-> <<>>, panic |-> ""]

TreeRecord(res) ==
    [called |-> TRUE, kind |-> res.kind, err |-> res.err, leaves |-> res.leaves,
     panic |-> res.panic]

\* A caller builds the tree of g over the data buffer.  tree is the call as
\* the crate is compiled; alt is the same call with the other leaf mode.
MerkleTree ==
    /\ tree' = TreeRecord(MerkleTreeIn(PARALLELL_MERKLE, g, buf, nodeSize))
    /\ alt' = TreeRecord(MerkleTreeIn(~PARALLELL_MERKLE, g, buf, nodeSize))
    /\ UNCHANGED <<g, h, cipher, rng, ret, memo, hashfn, buf, nodeSize, ident>>

----------------------------------------------------------------------------
(* ParameterSetIdentifier for BucketGraph                                  *)

Digit(d) ==
    CASE d = 0 -> "0" [] d = 1 -> "1" [] d = 2 -> "2" [] d = 3 -> "3" [] d = 4 -> "4"
      [] d = 5 -> "5" [] d = 6 -> "6" [] d = 7 -> "7" [] d = 8 -> "8" [] d = 9 -> "9"

\* The "{}" of format! on a usize: its decimal digits.
RECURSIVE Display(_)
Display(n) == IF n < 10 THEN Digit(n) ELSE Display(n \div 10) \o Digit(n % 10)

\* The first word of the seed formatted into the identifier.
MutIdentifierWithSeed(gr) ==
    "drgraph::BucketGraph{size: " \o Display(gr.nodes) \o "; degree: "
        \o Display(gr.base_degree) \o "; seed: " \o Display(gr.seed[1]) \o "}"

\* format!("drgraph::BucketGraph{{size: {}; degree: {}}}", self.nodes, self.base_degree)
ParameterSetIdentifier(gr) ==
    "drgraph::BucketGraph{size: " \o Display(gr.nodes) \o "; degree: "
        \o Display(gr.base_degree) \o "}"

NoIdent == [called |-> FALSE, g |-> "", h |-> ""]

\* A caller asks both graphs for their identifiers.
Identify ==
    /\ ident' = [called |-> TRUE, g |-> ParameterSetIdentifier(g),
                 h |-> ParameterSetIdentifier(h)]
    /\ UNCHANGED <<g, h, cipher, rng, ret, memo, hashfn, buf, nodeSize, tree, alt>>

----------------------------------------------------------------------------
(* Specifications                                                          *)

InitParents ==
    /\ \E nodes \in 1..MaxNodes, base_degree \in 0..MaxDegree, seed \in Seeds :
          g = NewGraph(nodes, base_degree, 0, seed)
    /\ h = g
    /\ cipher \in [0..(CipherLen - 1) -> 0..(RngWords - 1)]
    /\ rng = NoRng
    /\ ret = NoCall
    /\ memo = NoCall
    /\ hashfn = <<>>
    /\ buf = NoData
    /\ nodeSize = 0
    /\ tree = NoTree
    /\ alt = NoTree
    /\ ident = NoIdent

NextParents ==
    \E gr \in {g, h}, node \in 0..(MaxNodes - 1) : Parents(gr, node)

SpecParents == InitParents /\ [][NextParents]_vars

\* The buffers handed to a graph: every length of DataLens, and every
\* content of the slices for the length that holds the graph's nodes at the
\* hash size.  The content of a buffer of any other length is never read,
\* and is left zero.
Buffers(gr) ==
    {[len |-> len, slices |-> c] :
        len \in DataLens \ {HashSize * Size(gr)},
        c \in {[i \in 0..(Size(gr) - 1) |-> 0]}}
    \cup
    {[len |-> HashSize * Size(gr), slices |-> c] :
        c \in [0..(Size(gr) - 1) -> SliceVals]}

InitTree ==
    /\ \E nodes \in 2..MaxNodes, seed \in Seeds :
          g = NewGraph(nodes, MaxDegree, 0, seed)
    /\ h = g
    /\ cipher = <<>>
    /\ rng = NoRng
    /\ ret = NoCall
    /\ memo = NoCall
    /\ hashfn \in [SliceVals -> Domain]
    /\ buf \in Buffers(g)
    /\ nodeSize \in NodeSizes
    /\ tree = NoTree
    /\ alt = NoTree
    /\ ident = NoIdent

NextTree == MerkleTree

SpecTree == InitTree /\ [][NextTree]_vars

IdentNodes == {1, 5, 11, 12}
IdentDegrees == {1, 2, 3, 12}

InitIdent ==
    /\ \E nodes \in IdentNodes, base_degree \in IdentDegrees, seed \in Seeds :
          g = NewGraph(nodes, base_degree, 0, seed)
    /\ \E nodes \in IdentNodes, base_degree \in IdentDegrees, seed \in Seeds :
          h = NewGraph(nodes, base_degree, 0, seed)
    /\ cipher = <<>>
    /\ rng = NoRng
    /\ ret = NoCall
    /\ memo = NoCall
    /\ hashfn = <<>>
    /\ buf = NoData
    /\ nodeSize = 0
    /\ tree = NoTree
    /\ alt = NoTree
    /\ ident = NoIdent

NextIdent == Identify

SpecIdent == InitIdent /\ [][NextIdent]_vars

----------------------------------------------------------------------------
(* Properties of BucketGraph::parents, under SpecParents.                  *)

Sampled(c) == c.called /\ c.node >= 2 /\ c.base_degree >= 1

Pushes(c) == [k \in 1..Len(c.outs) |-> PushOf(c.node, c.outs[k])]

IsSorted(s) == \A i \in 1..(Len(s) - 1) : s[i] <= s[i + 1]

\* C1: for base_degree >= 1 and a node i >= 2, the call returns, every
\* returned parent is strictly below i, and no candidate above i was
\* produced (a candidate equal to i having been replaced by i - 1).
C1_ForwardNoSelfLoop ==
    Sampled(ret) =>
        /\ ret.panic = ""
        /\ \A k \in 1..Len(ret.outs) : ret.outs[k] <= ret.node
        /\ \A p \in 1..Len(ret.parents) : ret.parents[p] < ret.node

\* A call on a node >= 2 in which one candidate was the node itself.
C1_Witness ==
    /\ Sampled(ret) /\ ret.panic = ""
    /\ \E k \in 1..Len(ret.outs) : ret.outs[k] = ret.node
    /\ \E p \in 1..Len(ret.parents) : ret.parents[p] = ret.node - 1

SameKey(c, d) ==
    c.base_degree = d.base_degree /\ c.seed = d.seed /\ c.node = d.node

\* C2: any two parents calls with the same (base_degree, seed, node), on
\* the same graph or on its copy, whatever was called in between, return
\* the same sequence.
C2_Deterministic ==
    (ret.called /\ memo.called /\ SameKey(ret, memo)) =>
        (ret.panic = memo.panic /\ ret.parents = memo.parents)

\* Two calls on the same sampled node, both returned.
C2_Witness ==
    /\ Sampled(ret) /\ memo.called /\ SameKey(ret, memo)
    /\ ret.panic = "" /\ ret.parents = memo.parents
    /\ Len(ret.parents) >= 2

\* C8: every call on a node of the graph returns exactly base_degree
\* entries: base_degree zeros for nodes 0 and 1, and one entry per slot for
\* every other node, equal entries included.
C8_Degree ==
    ret.called =>
        /\ ret.panic = ""
        /\ Len(ret.parents) = ret.base_degree
        /\ ret.node < 2 => ret.parents = [i \in 1..ret.base_degree |-> 0]
        /\ ret.node >= 2 =>
              /\ Len(ret.outs) = ret.base_degree
              /\ \A v \in 0..ret.node :
                    Cardinality({i \in 1..Len(ret.parents) : ret.parents[i] = v})
                      = Cardinality({k \in 1..Len(ret.outs) : Pushes(ret)[k] = v})

\* A call on a sampled node that returned the same parent twice.
C8_Witness ==
    /\ Sampled(ret) /\ ret.panic = ""
    /\ Len(ret.parents) = ret.base_degree
    /\ \E i \in 1..(Len(ret.parents) - 1) : ret.parents[i] = ret.parents[i + 1]

\* C9: the sequence a parents call returns is non-decreasing.
C9_Sorted ==
    ret.called => (ret.panic = "" /\ IsSorted(ret.parents))

\* A call whose slots produced their parents out of order, one of them by
\* the self-reference substitution.
C9_Witness ==
    /\ Sampled(ret) /\ ret.panic = ""
    /\ ~IsSorted(Pushes(ret))
    /\ \E k \in 1..Len(ret.outs) : ret.outs[k] = ret.node
    /\ IsSorted(ret.parents)

\* C10: a call on a node >= 2 with base_degree >= 1 never aborts: in every
\* slot k, logi >= 1, jj >= 2, 2 <= back_dist <= jj <= node*base_degree + k,
\* and out <= node.
C10_NeverAborts ==
    Sampled(ret) =>
        /\ ret.panic = ""
        /\ Len(ret.draws) = ret.base_degree
        /\ \A i \in 1..Len(ret.draws) :
              LET d == ret.draws[i]
              IN  /\ d.logi >= 1
                  /\ d.jj >= 2
                  /\ 2 <= d.back_dist
                  /\ d.back_dist <= d.jj
                  /\ d.jj <= ret.node * ret.base_degree + (i - 1)
                  /\ ret.outs[i] <= ret.node

\* A call whose last slot drew the smallest bucket and another slot the
\* largest distance its node allows.
C10_Witness ==
    /\ Sampled(ret) /\ ret.panic = ""
    /\ \E i \in 1..Len(ret.draws) : ret.draws[i].jj = 2
    /\ \E i \in 1..Len(ret.draws) :
          ret.draws[i].back_dist = ret.node * ret.base_degree + (i - 1)

----------------------------------------------------------------------------
(* Properties of Graph::merkle_tree, under SpecTree.                       *)

LengthFits == buf.len = nodeSize * Size(g)

AllSlicesValid == \A i \in 0..(Size(g) - 1) : TryFromBytes(buf.slices[i]).ok

C4_AsStated ==
    (tree.called /\ nodeSize # HashSize) =>
        (tree.kind = "InvalidNodeSize" /\ tree.err = <<nodeSize>>)

\* C4 as amended: with node_byte_size != 32 the call returns no tree; it
\* fails with InvalidNodeSize(node_byte_size) when the data length equals
\* node_byte_size * nodes, and with InvalidMerkleTreeArgs(data.length,
\* node_byte_size, nodes) when it does not.
C4_NodeSizeError ==
    (tree.called /\ nodeSize # HashSize) =>
        /\ tree.leaves = <<>>
        /\ LengthFits => (tree.kind = "InvalidNodeSize" /\ tree.err = <<nodeSize>>)
        /\ ~LengthFits =>
              (tree.kind = "InvalidMerkleTreeArgs"
                 /\ tree.err = <<buf.len, nodeSize, Size(g)>>)

\* A call with a node size above 32 on a buffer of node_size * nodes bytes.
C4_Witness ==
    /\ tree.called /\ nodeSize > HashSize /\ LengthFits
    /\ tree.kind = "InvalidNodeSize"

\* C5: on a buffer the sequential mode builds a tree from, the parallel
\* mode builds a tree with the same leaf at every index.
C5_ModesAgree ==
    (tree.called /\ alt.called /\ tree.kind = "ok") =>
        (alt.kind = "ok" /\ alt.leaves = tree.leaves)

\* C6: when the length and the node size are right and a slice is no
\* Domain encoding, the sequential call returns an error: no tree, and no
\* panic.
C6_DecodeErrorPropagated ==
    (tree.called /\ nodeSize = HashSize /\ LengthFits /\ ~AllSlicesValid) =>
        (tree.kind \notin {"ok", "panic"} /\ tree.panic = "")

----------------------------------------------------------------------------
(* Properties of parameter_set_identifier, under SpecIdent.                *)

SameShape == g.nodes = h.nodes /\ g.base_degree = h.base_degree

Prefix == "drgraph::BucketGraph{size: "

StartsWith(str, pre) == Len(str) >= Len(pre) /\ SubSeq(str, 1, Len(pre)) = pre

EndsWith(str, suf) ==
    Len(str) >= Len(suf) /\ SubSeq(str, Len(str) - Len(suf) + 1, Len(str)) = suf

\* C7: the identifier depends on (nodes, base_degree) alone: graphs of the
\* same shape give the same string whatever their seeds, graphs of different
\* shapes give different strings, and the string has the form
\* drgraph::BucketGraph{size: <nodes>; degree: <base_degree>}.
C7_Identifier ==
    ident.called =>
        /\ SameShape <=> ident.g = ident.h
        /\ StartsWith(ident.g, Prefix)
        /\ EndsWith(ident.g, "}")
        /\ (g.nodes = 5 /\ g.base_degree = 3) =>
              ident.g = "drgraph::BucketGraph{size: 5; degree: 3}"
        /\ (g.nodes = 12 /\ g.base_degree = 1) =>
              ident.g = "drgraph::BucketGraph{size: 12; degree: 1}"
        /\ (h.nodes = 1 /\ h.base_degree = 12) =>
              ident.h = "drgraph::BucketGraph{size: 1; degree: 12}"

\* Two graphs of one shape with two seeds, identified by one string.
C7_Witness ==
    /\ ident.called /\ SameShape /\ g.seed # h.seed
    /\ g.nodes = 12 /\ g.base_degree = 1
    /\ ident.g = ident.h

====
